---- MODULE Spec2Model ----
(***************************************************************************)
(* Model of the nba-player-stats server: the table normaliser              *)
(* get_stats_fixed (fix_basketball_reference.py), the start-up sequence    *)
(* that installs it over basketball_reference_scraper.players.get_stats,   *)
(* and the tool handlers of src/server.py that consume its tables.         *)
(*                                                                         *)
(* A DataFrame is a record [cols, rows, index]: the column labels in       *)
(* position order (labels may repeat after a rename), the rows as          *)
(* sequences of cells aligned with cols, and the row labels.  Cells are    *)
(* strings; a missing value is the cell NaN.                               *)
(***************************************************************************)
EXTENDS Integers, Sequences, FiniteSets, TLC

VARIABLES pc, fix_loaded, players_get_stats, brs_get_stats, call, site, tasks

vars == <<pc, fix_loaded, players_get_stats, brs_get_stats, call, site, tasks>>

(***************************************************************************)
(* Bounds of the model.                                                    *)
(***************************************************************************)
MaxRows == 3

\* rows of the second table of a player page a handler also reads
MaxSmallRows == 1

\* columns of a header the rename pass is applied to on its own
MaxCols == 3

(***************************************************************************)
(* Cells and column layouts delivered by the upstream page.                *)
(***************************************************************************)
NaN == "NaN"

SeasonCells == {"2021-22", "Career", NaN}

\* value of a statistic cell of the raw row at position p (distinct per row)
StatVal(p) == <<"10", "11", "12", "13", "14", "15">>[p]

\* column layouts as pd.read_html surfaces them: a repeated header label
\* comes back with a positional suffix (FG, FG.1)
LayoutGames == <<"Season", "G", "MP", "PTS">>
LayoutLegacy == <<"Season", "FG", "FG.1", "FT", "FT.1">>
LayoutModern == <<"Season", "FG", "FG%", "PTS">>

Layouts == {LayoutGames, LayoutLegacy, LayoutModern}

\* which statistic cells of a row are missing: none, the first statistic
\* only, the second only (a percentage without attempts), or all of them
\* (a season the player did not play)
MaskNone == "none"
MaskFirst == "first"
MaskSecond == "second"
MaskAll == "all"
Masks == {MaskNone, MaskFirst, MaskSecond, MaskAll}

MkRow(layout, season, mask, p) ==
    [j \in 1..Len(layout) |->
        IF j = 1 THEN season
        ELSE IF mask = MaskAll \/ (mask = MaskFirst /\ j = 2) \/ (mask = MaskSecond /\ j = 3)
             THEN NaN
        ELSE StatVal(p)]

RowSpecs == SeasonCells \X Masks

SeqsUpTo(S, n) == UNION {[1..m -> S] : m \in 0..n}

DF(cols, rows, index) == [cols |-> cols, rows |-> rows, index |-> index]

\* pd.DataFrame()
EmptyDataFrame == DF(<<>>, <<>>, <<>>)

\* RangeIndex of n rows
RangeIndex(n) == [i \in 1..n |-> i - 1]

\* the first table pd.read_html parses from the fetched markup
RawTable(layout, specs) ==
    DF(layout,
       [p \in 1..Len(specs) |-> MkRow(layout, specs[p][1], specs[p][2], p)],
       RangeIndex(Len(specs)))

RawTables == {RawTable(l, s) : l \in Layouts, s \in SeqsUpTo(RowSpecs, MaxRows)}

\* the tables the handlers are run against
HandlerTables ==
    {RawTable(l, s) : l \in Layouts, s \in SeqsUpTo(SeasonCells \X {MaskNone, MaskAll}, MaxRows)}

SmallTables ==
    {RawTable(LayoutGames, s) : s \in SeqsUpTo(SeasonCells \X {MaskNone}, MaxSmallRows)}

(***************************************************************************)
(* pandas helpers.                                                         *)
(***************************************************************************)
Count(cols, label) == Cardinality({i \in DOMAIN cols : cols[i] = label})

Has(cols, label) == \E i \in DOMAIN cols : cols[i] = label

Pos(cols, label) == CHOOSE i \in DOMAIN cols : cols[i] = label

\* df.rename(columns={from: to}): every column labelled `from` is relabelled
RenameCol(cols, from, to) ==
    [i \in DOMAIN cols |-> IF cols[i] = from THEN to ELSE cols[i]]

\* str.upper() on the labels that occur
Upper(label) ==
    CASE label = "Season" -> "SEASON"
      [] label = "Age" -> "AGE"
      [] label = "Tm" -> "TM"
      [] label = "Lg" -> "LG"
      [] label = "Pos" -> "POS"
      [] label = "Awards" -> "AWARDS"
      [] label = "eFG" -> "EFG"
      [] label = "eFG%" -> "EFG%"
      [] OTHER -> label

Ok(df) == [exc |-> "none", df |-> df]

Raise(e) == [exc |-> e, df |-> EmptyDataFrame]

(***************************************************************************)
(* get_stats_fixed, lines 62-94: the normalisation of the parsed table.    *)
(***************************************************************************)
\* the mapping with a target that is itself a key: Tm is renamed to Pos
FixedRenameLabelChained(l) ==
    CASE l = "Season" -> "SEASON"
      [] l = "Age" -> "AGE"
      [] l = "Tm" -> "Pos"
      [] l = "Lg" -> "LEAGUE"
      [] l = "Pos" -> "POS"
      [] l = "Awards" -> "AWARDS"
      [] OTHER -> l

\* lines 63-64
FixedRenameLabel(l) ==
    CASE l = "Season" -> "SEASON"
      [] l = "Age" -> "AGE"
      [] l = "Tm" -> "TEAM"
      [] l = "Lg" -> "LEAGUE"
      [] l = "Pos" -> "POS"
      [] l = "Awards" -> "AWARDS"
      [] OTHER -> l

FixedRename(cols) == [i \in DOMAIN cols |-> FixedRenameLabel(cols[i])]

\* the collision renames with the FT.1 rename of lines 69-70 left out
CollisionRenameNoFT(cols) ==
    RenameCol(RenameCol(cols, "FG.1", "FG%"), "eFG", "eFG%")

\* lines 65-70
CollisionRename(cols) ==
    RenameCol(RenameCol(RenameCol(cols, "FG.1", "FG%"), "eFG", "eFG%"), "FT.1", "FT%")

RenamePass(cols) == CollisionRename(FixedRename(cols))

\* line 73: positions (= row labels of a RangeIndex) of the Career rows
CareerRows(df) ==
    LET s == Pos(df.cols, "SEASON")
    IN {i \in DOMAIN df.rows : df.rows[i][s] = "Career"}

Min(S) == CHOOSE x \in S : \A y \in S : x <= y

\* the slice taken two rows too early, from the Career row itself
ILocFromCareerRow(df, a) ==
    DF(df.cols, SubSeq(df.rows, a - 1, Len(df.rows)), SubSeq(df.index, a - 1, Len(df.index)))

\* df.iloc[a:, :] and df.iloc[:b, :] with 0-based bounds
ILocFrom(df, a) ==
    DF(df.cols, SubSeq(df.rows, a + 1, Len(df.rows)), SubSeq(df.index, a + 1, Len(df.index)))

ILocTo(df, b) ==
    DF(df.cols, SubSeq(df.rows, 1, b), SubSeq(df.index, 1, b))

Max(S) == CHOOSE x \in S : \A y \in S : x >= y

\* the split at the last Career row instead of the first
CareerSplitAtLast(df, career) ==
    IF CareerRows(df) # {}
    THEN LET career_index == df.index[Max(CareerRows(df))]
         IN IF career THEN ILocFrom(df, career_index + 2)
            ELSE ILocTo(df, career_index)
    ELSE df

\* lines 72-79
CareerSplit(df, career) ==
    IF CareerRows(df) # {}
    THEN LET career_index == df.index[Min(CareerRows(df))]
         IN IF career THEN ILocFrom(df, career_index + 2)
            ELSE ILocTo(df, career_index)
    ELSE df

\* lines 84-86: the loop runs over the labels as they were when it started;
\* df[column][index] raises KeyError when the label is gone or repeated
RECURSIVE PercentLoop(_, _, _, _)
PercentLoop(orig, cur, row, i) ==
    IF i > Len(orig) THEN [exc |-> "none", cols |-> cur]
    ELSE LET column == orig[i]
         IN IF Count(cur, column) # 1 THEN [exc |-> "KeyError", cols |-> cur]
            ELSE IF row[Pos(cur, column)] = NaN
                 THEN PercentLoop(orig, RenameCol(cur, column, Upper(column) \o "%"), row, i + 1)
                 ELSE PercentLoop(orig, cur, row, i + 1)

\* the probe without the guard of line 82: df.index[0] of an empty table
PercentPassUnguarded(df) ==
    IF Len(df.rows) > 0
    THEN LET r == PercentLoop(df.cols, df.cols, df.rows[1], 1)
         IN IF r.exc # "none" THEN Raise(r.exc)
            ELSE Ok(DF(r.cols, df.rows, df.index))
    ELSE Raise("IndexError")

\* lines 81-86
PercentPass(df) ==
    IF Len(df.rows) > 0
    THEN LET r == PercentLoop(df.cols, df.cols, df.rows[1], 1)
         IN IF r.exc # "none" THEN Raise(r.exc)
            ELSE Ok(DF(r.cols, df.rows, df.index))
    ELSE Ok(df)

IsAdvanced(stat_type) == stat_type = "advanced"

\* the drop that removes the labels and leaves the cells of the rows
DropColsLabelsOnly(df, labels) ==
    LET keep == {i \in DOMAIN df.cols : df.cols[i] \notin labels}
        RECURSIVE Sel(_, _)
        Sel(s, i) == IF i > Len(s) THEN <<>>
                     ELSE IF i \in keep THEN <<s[i]>> \o Sel(s, i + 1)
                     ELSE Sel(s, i + 1)
    IN DF(Sel(df.cols, 1), df.rows, df.index)

\* df.drop(labels, axis=1)
DropCols(df, labels) ==
    LET keep == {i \in DOMAIN df.cols : df.cols[i] \notin labels}
        RECURSIVE Sel(_, _)
        Sel(s, i) == IF i > Len(s) THEN <<>>
                     ELSE IF i \in keep THEN <<s[i]>> \o Sel(s, i + 1)
                     ELSE Sel(s, i + 1)
    IN DF(Sel(df.cols, 1), [p \in DOMAIN df.rows |-> Sel(df.rows[p], 1)], df.index)

\* the drop without the category test of line 88
AdvancedDropAnyCategory(df, stat_type) ==
    IF Has(df.cols, "G") /\ Has(df.cols, "MP")
    THEN Ok(DropCols(df, {"G", "MP"}))
    ELSE IF IsAdvanced(stat_type) THEN Raise("KeyError") ELSE Ok(df)

\* lines 88-89
AdvancedDrop(df, stat_type) ==
    IF IsAdvanced(stat_type)
    THEN IF Has(df.cols, "G") /\ Has(df.cols, "MP")
         THEN Ok(DropCols(df, {"G", "MP"}))
         ELSE Raise("KeyError")
    ELSE Ok(df)

\* the renumbering applied whatever the career flag
ResetIndexAlways(df, career) == DF(df.cols, df.rows, RangeIndex(Len(df.rows)))

\* lines 91-92
ResetIndex(df, career) ==
    IF ~career THEN DF(df.cols, df.rows, RangeIndex(Len(df.rows))) ELSE df

\* the missing-value rename run before the Career split: it probes the
\* first row of the parsed table
NormalizePercentBeforeSplit(raw, stat_type, career) ==
    LET renamed == DF(RenamePass(raw.cols), raw.rows, raw.index)
    IN IF ~Has(renamed.cols, "SEASON") THEN Raise("KeyError")
       ELSE LET pct == PercentPass(renamed)
            IN IF pct.exc # "none" THEN pct
               ELSE IF ~Has(pct.df.cols, "SEASON") THEN Raise("KeyError")
               ELSE LET adv == AdvancedDrop(CareerSplit(pct.df, career), stat_type)
                    IN IF adv.exc # "none" THEN adv
                       ELSE Ok(ResetIndex(adv.df, career))

\* lines 62-94 on the parsed table `raw`; stat_type is already lower-cased
Normalize(raw, stat_type, career) ==
    LET renamed == DF(RenamePass(raw.cols), raw.rows, raw.index)
    IN IF ~Has(renamed.cols, "SEASON") THEN Raise("KeyError")
       ELSE LET split == CareerSplit(renamed, career)
                pct == PercentPass(split)
            IN IF pct.exc # "none" THEN pct
               ELSE LET adv == AdvancedDrop(pct.df, stat_type)
                    IN IF adv.exc # "none" THEN adv
                       ELSE Ok(ResetIndex(adv.df, career))

(***************************************************************************)
(* get_stats_fixed, lines 22-60: lookup, table selection and fetch.        *)
(***************************************************************************)
StatTypes ==
    {"PER_GAME", "TOTALS", "PER_MINUTE", "PER_POSS", "ADVANCED", "PER_POSSESSION",
     "per_game", "Per_Poss"}

\* line 29: str.lower() on the categories that occur
Lower(stat_type) ==
    CASE stat_type = "PER_GAME" -> "per_game"
      [] stat_type = "TOTALS" -> "totals"
      [] stat_type = "PER_MINUTE" -> "per_minute"
      [] stat_type = "PER_POSS" -> "per_poss"
      [] stat_type = "ADVANCED" -> "advanced"
      [] stat_type = "PER_POSSESSION" -> "per_possession"
      [] stat_type = "Per_Poss" -> "per_poss"
      [] OTHER -> stat_type

\* the lookup without table_id_map: the identifiers of the old page layout
TableIdMapOld(st) == st

\* lines 33-39: table_id_map.get(stat_type, stat_type)
TableIdMap(st) ==
    CASE st = "per_game" -> "per_game_stats"
      [] st = "totals" -> "totals_stats"
      [] st = "per_minute" -> "per_minute_stats"
      [] st = "per_poss" -> "per_poss_stats"
      [] st = "advanced" -> "advanced"
      [] OTHER -> st

\* lines 42-45
TableId(st, playoffs) == IF playoffs THEN TableIdMap(st) \o "_post" ELSE TableIdMap(st)

\* the selection without the playoffs test of line 47
FetchPathNoPlayoffTest(st, playoffs) ==
    IF st \in {"per_game", "totals", "advanced"} THEN "http"
    ELSE IF st \in {"per_minute", "per_poss"} \/ playoffs THEN "selenium"
    ELSE "none"

\* lines 47-57: which fetch the call performs
FetchPath(st, playoffs) ==
    IF st \in {"per_game", "totals", "advanced"} /\ ~playoffs THEN "http"
    ELSE IF st \in {"per_minute", "per_poss"} \/ playoffs THEN "selenium"
    ELSE "none"

\* the tables a player page carries
PageTableIds ==
    {"per_game_stats", "totals_stats", "per_minute_stats", "per_poss_stats", "advanced",
     "per_game_stats_post", "totals_stats_post", "per_minute_stats_post",
     "per_poss_stats_post", "advanced_post"}

\* what the upstream holds for the call: the lookup finds no player, the
\* fetch fails, the page lacks the table, or the page has the table
UpNotFound == [kind |-> "not_found", raw |-> EmptyDataFrame]
UpFetchFailed == [kind |-> "fetch_failed", raw |-> EmptyDataFrame]
UpNoTable == [kind |-> "no_table", raw |-> EmptyDataFrame]
UpTable(raw) == [kind |-> "table", raw |-> raw]

\* the call with a normalisation of its own for playoff tables: their
\* Career row is not split off
get_stats_fixedPlayoffsUnsplit(up, stat_type, playoffs, career) ==
    LET st == Lower(stat_type)
        path == FetchPath(st, playoffs)
        delivered == up.kind = "table" /\ TableId(st, playoffs) \in PageTableIds
        renamed == DF(RenamePass(up.raw.cols), up.raw.rows, up.raw.index)
    IN IF up.kind = "not_found" THEN Ok(EmptyDataFrame)
       ELSE IF path = "http"
            THEN IF up.kind = "fetch_failed" THEN Raise("ConnectionError")
                 ELSE IF ~delivered THEN Raise("ValueError")
                 ELSE Normalize(up.raw, st, career)
       ELSE IF path = "selenium"
            THEN IF ~delivered THEN Ok(EmptyDataFrame)
                 ELSE IF playoffs THEN Ok(renamed)
                 ELSE Normalize(up.raw, st, career)
       ELSE Ok(EmptyDataFrame)

\* the call without the return of lines 26-27: the page of no player is
\* fetched and the fetch fails
get_stats_fixedNoSuffixCheck(up, stat_type, playoffs, career) ==
    LET st == Lower(stat_type)
        path == FetchPath(st, playoffs)
        delivered == up.kind = "table" /\ TableId(st, playoffs) \in PageTableIds
    IN IF path = "http"
       THEN IF up.kind \in {"fetch_failed", "not_found"} THEN Raise("ConnectionError")
            ELSE IF ~delivered THEN Raise("ValueError")
            ELSE Normalize(up.raw, st, career)
       ELSE IF path = "selenium"
            THEN IF ~delivered THEN Ok(EmptyDataFrame)
                 ELSE Normalize(up.raw, st, career)
       ELSE Ok(EmptyDataFrame)

\* get_stats_fixed(_name, stat_type, playoffs, career) against upstream `up`
get_stats_fixed(up, stat_type, playoffs, career) ==
    LET st == Lower(stat_type)
        path == FetchPath(st, playoffs)
        delivered == up.kind = "table" /\ TableId(st, playoffs) \in PageTableIds
    IN IF up.kind = "not_found" THEN Ok(EmptyDataFrame)
       ELSE IF path = "http"
            THEN IF up.kind = "fetch_failed" THEN Raise("ConnectionError")
                 ELSE IF ~delivered THEN Raise("ValueError")
                 ELSE Normalize(up.raw, st, career)
       ELSE IF path = "selenium"
            THEN IF ~delivered THEN Ok(EmptyDataFrame)
                 ELSE Normalize(up.raw, st, career)
       ELSE Ok(EmptyDataFrame)

\* lines 24-57: the fetches the call performs, each with the path it takes
\* and the table it asks for
Fetches(up, stat_type, playoffs) ==
    LET st == Lower(stat_type)
        path == FetchPath(st, playoffs)
    IN IF up.kind = "not_found" \/ path = "none" THEN <<>>
       ELSE <<[path |-> path, table_id |-> TableId(st, playoffs)]>>

\* the advanced table of a page carries the G and MP columns
PageHas(stat_type, raw) ==
    IsAdvanced(Lower(stat_type)) => (Has(raw.cols, "G") /\ Has(raw.cols, "MP"))

(***************************************************************************)
(* DataFrame operations the handlers of src/server.py use.                 *)
(***************************************************************************)
RECURSIVE PickFrom(_, _, _)
PickFrom(s, keep, i) ==
    IF i > Len(s) THEN <<>>
    ELSE IF i \in keep THEN <<s[i]>> \o PickFrom(s, keep, i + 1)
    ELSE PickFrom(s, keep, i + 1)

\* df[mask]: the rows at the positions `keep`, with their row labels
Where(df, keep) == DF(df.cols, PickFrom(df.rows, keep, 1), PickFrom(df.index, keep, 1))

\* df.empty
IsEmpty(df) == Len(df.rows) = 0 \/ Len(df.cols) = 0

SeasonOf(df, i) == df.rows[i][Pos(df.cols, "SEASON")]

\* df[df['SEASON'] == label] and df[df['SEASON'] != label]
SeasonEq(df, label) == Where(df, {i \in DOMAIN df.rows : SeasonOf(df, i) = label})

SeasonNe(df, label) == Where(df, {i \in DOMAIN df.rows : SeasonOf(df, i) # label})

Labels(df) == {df.cols[j] : j \in DOMAIN df.cols}

\* to_dict: of columns with one label the last one is kept
RowDict(df, i) ==
    [l \in Labels(df) |-> df.rows[i][Max({j \in DOMAIN df.cols : df.cols[j] = l})]]

\* df.to_dict('records')
Records(df) == [i \in DOMAIN df.rows |-> RowDict(df, i)]

EmptyDict == <<>>

\* the first record of a selection, or {} when it is empty
FirstRecordOrEmpty(df) == IF ~IsEmpty(df) THEN RowDict(df, 1) ELSE EmptyDict

\* float conversion of a cell: the numeric cells and their values
IsNum(cell) == cell \in {"10", "11", "12", "13", "14", "15"}

NumVal(cell) ==
    CASE cell = "10" -> 10 [] cell = "11" -> 11 [] cell = "12" -> 12
      [] cell = "13" -> 13 [] cell = "14" -> 14 [] cell = "15" -> 15

\* float(cell): a missing value converts (to nan), a label does not
IsFloat(cell) == IsNum(cell) \/ cell = NaN

FloatOf(cell) == IF cell = NaN THEN NaN ELSE NumVal(cell)

\* float(a) - float(b), nan when either is
FloatSub(a, b) == IF a = NaN \/ b = NaN THEN NaN ELSE NumVal(a) - NumVal(b)

\* Series.idxmax() over column `label`, missing values skipped: the position
\* of the first row holding the maximum, 0 when every value is missing
IdxMax(df, label) ==
    LET c == Pos(df.cols, label)
        valid == {i \in DOMAIN df.rows : IsNum(df.rows[i][c])}
    IN IF valid = {} THEN 0
       ELSE Min({i \in valid : \A k \in valid : NumVal(df.rows[i][c]) >= NumVal(df.rows[k][c])})

\* df.loc[label]
LocPos(df, label) == CHOOSE i \in DOMAIN df.index : df.index[i] = label

\* str(n) zero-padded to two digits
TwoDigits(n) == IF n < 10 THEN "0" \o ToString(n) ELSE ToString(n)

\* str(n) zero-padded to three digits
ThreeDigits(n) == IF n < 100 THEN "0" \o TwoDigits(n) ELSE ToString(n)

\* str(season)[2:] for a season of up to five digits
TailFrom2(season) ==
    IF season < 100 THEN ""
    ELSE IF season < 1000 THEN ToString(season % 10)
    ELSE IF season < 10000 THEN TwoDigits(season % 100)
    ELSE ThreeDigits(season % 1000)

\* the label without the step back to the year the season starts in
SeasonStrNoDecrement(season) == ToString(season) \o "-" \o TailFrom2(season)

\* f"{season-1}-{str(season)[2:]}"
SeasonStr(season) == ToString(season - 1) \o "-" \o TailFrom2(season)

(***************************************************************************)
(* Handlers of src/server.py.  A handler body either raises inside its try *)
(* block or returns a mapping; the except clause turns a raise into the    *)
(* error mapping.                                                          *)
(***************************************************************************)
PlayerName == "P"

Return(mapping) == [exc |-> "none", ret |-> mapping]

Raised(e) == [exc |-> e, ret |-> EmptyDict]

ErrorMapping(msg) == [error |-> msg]

\* a handler without its except clause
HandlerNoExcept(body) == body

\* except Exception as e: return {"error": str(e)}
HandlerBoundary(body) ==
    IF body.exc # "none" THEN Return(ErrorMapping(body.exc)) ELSE body

\* brs_get_stats(player_name, stat_type=..., playoffs=..., ask_matches=False):
\* the handlers never pass career, so it takes its default False
Brs(up, stat_type, playoffs) == get_stats_fixed(up, stat_type, playoffs, FALSE)

\* the scan taking the first season with a numeric PTS instead of the
\* one with the maximum
BestSeasonFirstValid(regular_stats, stat_type) ==
    IF stat_type = "PER_GAME" /\ Has(regular_stats.cols, "PTS")
    THEN LET season_data == SeasonNe(regular_stats, "Career")
             c == Pos(season_data.cols, "PTS")
             valid == {i \in DOMAIN season_data.rows : IsNum(season_data.rows[i][c])}
         IN IF IsEmpty(season_data) \/ valid = {} THEN EmptyDict
            ELSE RowDict(regular_stats, LocPos(regular_stats, season_data.index[Min(valid)]))
    ELSE EmptyDict

\* get_player_career_stats, lines 122-137
BestSeason(regular_stats, stat_type) ==
    IF stat_type = "PER_GAME" /\ Has(regular_stats.cols, "PTS")
    THEN LET season_data == SeasonNe(regular_stats, "Career")
             best == IF IsEmpty(season_data) THEN 0 ELSE IdxMax(season_data, "PTS")
         IN IF best = 0 THEN EmptyDict
            ELSE RowDict(regular_stats, LocPos(regular_stats, season_data.index[best]))
    ELSE EmptyDict

\* get_player_career_stats, lines 98-154
CareerStatsBody(regular, playoff, stat_type) ==
    IF regular.exc # "none" THEN Raised(regular.exc)
    ELSE IF playoff.exc # "none" THEN Raised(playoff.exc)
    ELSE IF IsEmpty(regular.df) THEN Return(ErrorMapping("No stats found for P"))
    ELSE IF ~Has(regular.df.cols, "SEASON") THEN Raised("KeyError")
    ELSE LET regular_stats == regular.df
             best_season == BestSeason(regular_stats, stat_type)
             result == [player_name |-> PlayerName,
                        stat_type |-> stat_type,
                        career_regular_season |->
                            FirstRecordOrEmpty(SeasonEq(regular_stats, "Career")),
                        seasons |-> Records(SeasonNe(regular_stats, "Career")),
                        total_seasons |-> Len(SeasonNe(regular_stats, "Career").rows),
                        best_scoring_season |->
                            IF best_season # EmptyDict THEN best_season ELSE "None"]
         IN IF IsEmpty(playoff.df) THEN Return(result)
            ELSE IF ~Has(playoff.df.cols, "SEASON") THEN Raised("KeyError")
            ELSE Return(result @@
                    [career_playoffs |-> FirstRecordOrEmpty(SeasonEq(playoff.df, "Career")),
                     playoff_seasons |-> Records(SeasonNe(playoff.df, "Career"))])

get_player_career_stats(up_regular, up_playoff, stat_type) ==
    HandlerBoundary(CareerStatsBody(Brs(up_regular, stat_type, FALSE),
                                    Brs(up_playoff, stat_type, TRUE), stat_type))

\* dict.get(key, 0)
Get(dict, key) == IF key \in DOMAIN dict THEN dict[key] ELSE "0"

\* get_player_totals, lines 614-630
Milestones(season_data) ==
    LET c == Pos(season_data.cols, "PTS")
        thousand_pt_seasons ==
            Where(season_data, {i \in DOMAIN season_data.rows :
                                  /\ IsNum(season_data.rows[i][c])
                                  /\ NumVal(season_data.rows[i][c]) >= 1000})
        best_idx == IdxMax(season_data, "PTS")
        first_1000 == IF ~IsEmpty(thousand_pt_seasons)
                      THEN [first_1000_point_season |-> SeasonOf(thousand_pt_seasons, 1)]
                      ELSE EmptyDict
        highest == IF best_idx # 0
                   THEN [highest_scoring_season |->
                            [season |-> SeasonOf(season_data, best_idx),
                             points |-> season_data.rows[best_idx][c]]]
                   ELSE EmptyDict
    IN first_1000 @@ highest

\* get_player_totals, lines 586-637; season 0 stands for None
TotalsBody(totals, season) ==
    IF totals.exc # "none" THEN Raised(totals.exc)
    ELSE IF IsEmpty(totals.df) THEN Return(ErrorMapping("No stats found for P"))
    ELSE IF ~Has(totals.df.cols, "SEASON") THEN Raised("KeyError")
    ELSE IF season # 0
         THEN LET season_totals == SeasonEq(totals.df, SeasonStr(season))
              IN IF IsEmpty(season_totals)
                 THEN Return(ErrorMapping("No stats found for P in " \o SeasonStr(season)))
                 ELSE Return([player_name |-> PlayerName,
                              season |-> SeasonStr(season),
                              totals |-> RowDict(season_totals, 1)])
    ELSE LET career_row == SeasonEq(totals.df, "Career")
             season_data == SeasonNe(totals.df, "Career")
         IN IF ~Has(season_data.cols, "PTS") THEN Raised("KeyError")
            ELSE Return([player_name |-> PlayerName,
                         career_totals |-> FirstRecordOrEmpty(career_row),
                         seasons |-> Records(season_data),
                         milestones |-> Milestones(season_data)])

get_player_totals(up_regular, season) ==
    HandlerBoundary(TotalsBody(Brs(up_regular, "TOTALS", FALSE), season))

\* get_player_shooting_splits, lines 484-507 and 541-563
ShootingStats(row) ==
    [field_goals |-> [percentage |-> Get(row, "FG%"), made_per_game |-> Get(row, "FG"),
                      attempted_per_game |-> Get(row, "FGA")],
     three_pointers |-> [percentage |-> Get(row, "3P%"), made_per_game |-> Get(row, "3P"),
                         attempted_per_game |-> Get(row, "3PA")],
     two_pointers |-> [percentage |-> Get(row, "2P%"), made_per_game |-> Get(row, "2P"),
                       attempted_per_game |-> Get(row, "2PA")],
     free_throws |-> [percentage |-> Get(row, "FT%"), made_per_game |-> Get(row, "FT"),
                      attempted_per_game |-> Get(row, "FTA")],
     effective_fg_percentage |-> Get(row, "eFG%")]

\* get_player_shooting_splits, lines 518-537: the percentage columns that get
\* a best season; a needed attempts column that is absent raises KeyError
BestShootingStats(season_data) ==
    {st \in {"FG%", "3P%", "FT%"} :
        /\ Has(season_data.cols, st)
        /\ ~IsEmpty(season_data)
        /\ IdxMax(season_data, st) # 0}

AttemptsLabel(st) == CASE st = "FG%" -> "FGA" [] st = "3P%" -> "3PA" [] st = "FT%" -> "FTA"

BestShootingSeasons(season_data) ==
    [st \in BestShootingStats(season_data) |->
        [season |-> SeasonOf(season_data, IdxMax(season_data, st)),
         percentage |-> season_data.rows[IdxMax(season_data, st)][Pos(season_data.cols, st)]]]

\* get_player_shooting_splits, lines 460-565
ShootingSplitsBody(stats, season) ==
    IF stats.exc # "none" THEN Raised(stats.exc)
    ELSE IF IsEmpty(stats.df) THEN Return(ErrorMapping("No stats found for P"))
    ELSE IF ~Has(stats.df.cols, "SEASON") THEN Raised("KeyError")
    ELSE IF season # 0
         THEN LET season_stats == SeasonEq(stats.df, SeasonStr(season))
              IN IF IsEmpty(season_stats)
                 THEN Return(ErrorMapping("No stats found for P in " \o SeasonStr(season)))
                 ELSE Return([player_name |-> PlayerName,
                              season |-> SeasonStr(season),
                              shooting_stats |-> ShootingStats(RowDict(season_stats, 1))])
    ELSE LET career_row == SeasonEq(stats.df, "Career")
             season_data == SeasonNe(stats.df, "Career")
         IN IF IsEmpty(career_row) THEN Return(ErrorMapping("No career stats found"))
            ELSE IF Has(season_data.cols, "3P%") /\ ~Has(season_data.cols, "3PA")
                 THEN Raised("KeyError")
            ELSE IF \E st \in BestShootingStats(season_data) :
                        ~Has(season_data.cols, AttemptsLabel(st))
                 THEN Raised("KeyError")
            ELSE Return([player_name |-> PlayerName,
                         career_shooting |-> ShootingStats(RowDict(career_row, 1)),
                         best_shooting_seasons |-> BestShootingSeasons(season_data)])

get_player_shooting_splits(up_regular, season) ==
    HandlerBoundary(ShootingSplitsBody(Brs(up_regular, "PER_GAME", FALSE), season))

\* get_player_playoff_stats, lines 689-701: float() of a cell that is not
\* numeric raises and the stat is skipped
PlayoffComparison(stat_type, career_stats, regular_career_stats) ==
    IF stat_type = "PER_GAME" /\ career_stats # EmptyDict /\ regular_career_stats # EmptyDict
    THEN [st \in {x \in {"PTS", "AST", "TRB", "FG%", "3P%", "FT%"} :
                    /\ x \in DOMAIN career_stats
                    /\ x \in DOMAIN regular_career_stats
                    /\ IsFloat(career_stats[x])
                    /\ IsFloat(regular_career_stats[x])} |->
            [playoffs |-> FloatOf(career_stats[st]),
             regular_season |-> FloatOf(regular_career_stats[st]),
             difference |-> FloatSub(career_stats[st], regular_career_stats[st])]]
    ELSE EmptyDict

\* the handler without the empty-table test of lines 667-672
PlayoffStatsBodyNoEmptyCheck(playoff, regular, stat_type) ==
    IF playoff.exc # "none" THEN Raised(playoff.exc)
    ELSE IF ~Has(playoff.df.cols, "SEASON") THEN Raised("KeyError")
    ELSE IF regular.exc # "none" THEN Raised(regular.exc)
    ELSE IF ~Has(regular.df.cols, "SEASON") THEN Raised("KeyError")
    ELSE LET career_stats == FirstRecordOrEmpty(SeasonEq(playoff.df, "Career"))
             regular_career_stats == FirstRecordOrEmpty(SeasonEq(regular.df, "Career"))
         IN Return([player_name |-> PlayerName,
                    stat_type |-> stat_type,
                    career_playoff_stats |-> career_stats,
                    playoff_appearances |-> Len(SeasonNe(playoff.df, "Career").rows),
                    playoff_seasons |-> Records(SeasonNe(playoff.df, "Career")),
                    playoff_vs_regular_season |->
                        PlayoffComparison(stat_type, career_stats, regular_career_stats)])

\* get_player_playoff_stats, lines 658-710; `regular` is fetched only after
\* the playoff table turned out non-empty
PlayoffStatsBody(playoff, regular, stat_type) ==
    IF playoff.exc # "none" THEN Raised(playoff.exc)
    ELSE IF IsEmpty(playoff.df)
         THEN Return([player_name |-> PlayerName,
                      message |-> "P has no playoff statistics",
                      playoff_appearances |-> 0])
    ELSE IF ~Has(playoff.df.cols, "SEASON") THEN Raised("KeyError")
    ELSE IF regular.exc # "none" THEN Raised(regular.exc)
    ELSE IF ~Has(regular.df.cols, "SEASON") THEN Raised("KeyError")
    ELSE LET career_stats == FirstRecordOrEmpty(SeasonEq(playoff.df, "Career"))
             regular_career_stats == FirstRecordOrEmpty(SeasonEq(regular.df, "Career"))
         IN Return([player_name |-> PlayerName,
                    stat_type |-> stat_type,
                    career_playoff_stats |-> career_stats,
                    playoff_appearances |-> Len(SeasonNe(playoff.df, "Career").rows),
                    playoff_seasons |-> Records(SeasonNe(playoff.df, "Career")),
                    playoff_vs_regular_season |->
                        PlayoffComparison(stat_type, career_stats, regular_career_stats)])

get_player_playoff_stats(up_regular, up_playoff, stat_type) ==
    HandlerBoundary(PlayoffStatsBody(Brs(up_playoff, stat_type, TRUE),
                                     Brs(up_regular, stat_type, FALSE), stat_type))

\* the handler taking the last row of the season instead of the first
SeasonStatsBodyLastRow(regular, playoff, season, stat_type, include_playoffs) ==
    IF regular.exc # "none" THEN Raised(regular.exc)
    ELSE IF IsEmpty(regular.df) THEN Return(ErrorMapping("No stats found for P"))
    ELSE IF ~Has(regular.df.cols, "SEASON") THEN Raised("KeyError")
    ELSE LET season_str == SeasonStr(season)
             season_stats == SeasonEq(regular.df, season_str)
             result == [player_name |-> PlayerName,
                        season |-> season_str,
                        stat_type |-> stat_type,
                        regular_season |-> RowDict(season_stats, Len(season_stats.rows))]
         IN IF IsEmpty(season_stats)
            THEN Return(ErrorMapping("No stats found for P in " \o season_str \o " season"))
            ELSE IF ~include_playoffs THEN Return(result)
            ELSE IF playoff.exc # "none" THEN Raised(playoff.exc)
            ELSE IF IsEmpty(playoff.df) THEN Return(result)
            ELSE IF ~Has(playoff.df.cols, "SEASON") THEN Raised("KeyError")
            ELSE IF IsEmpty(SeasonEq(playoff.df, season_str)) THEN Return(result)
            ELSE Return(result @@ [playoffs |-> RowDict(SeasonEq(playoff.df, season_str), 1)])

\* get_player_season_stats, lines 179-219; `playoff` is fetched only when
\* include_playoffs is set and the season row exists
SeasonStatsBody(regular, playoff, season, stat_type, include_playoffs) ==
    IF regular.exc # "none" THEN Raised(regular.exc)
    ELSE IF IsEmpty(regular.df) THEN Return(ErrorMapping("No stats found for P"))
    ELSE IF ~Has(regular.df.cols, "SEASON") THEN Raised("KeyError")
    ELSE LET season_str == SeasonStr(season)
             season_stats == SeasonEq(regular.df, season_str)
             result == [player_name |-> PlayerName,
                        season |-> season_str,
                        stat_type |-> stat_type,
                        regular_season |-> RowDict(season_stats, 1)]
         IN IF IsEmpty(season_stats)
            THEN Return(ErrorMapping("No stats found for P in " \o season_str \o " season"))
            ELSE IF ~include_playoffs THEN Return(result)
            ELSE IF playoff.exc # "none" THEN Raised(playoff.exc)
            ELSE IF IsEmpty(playoff.df) THEN Return(result)
            ELSE IF ~Has(playoff.df.cols, "SEASON") THEN Raised("KeyError")
            ELSE IF IsEmpty(SeasonEq(playoff.df, season_str)) THEN Return(result)
            ELSE Return(result @@ [playoffs |-> RowDict(SeasonEq(playoff.df, season_str), 1)])

get_player_season_stats(up_regular, up_playoff, season, stat_type, include_playoffs) ==
    HandlerBoundary(SeasonStatsBody(Brs(up_regular, stat_type, FALSE),
                                    Brs(up_playoff, stat_type, TRUE),
                                    season, stat_type, include_playoffs))

Player2Name == "Q"

ComparedStats == {"PTS", "AST", "TRB", "STL", "BLK", "FG%", "FT%", "3P%"}

\* compare_players, lines 409-423
StatisticalComparison(stat_type, p1_career, p2_career) ==
    IF stat_type = "PER_GAME" /\ ~IsEmpty(p1_career) /\ ~IsEmpty(p2_career)
    THEN LET p1_dict == RowDict(p1_career, 1)
             p2_dict == RowDict(p2_career, 1)
         IN [st \in {x \in ComparedStats :
                        /\ x \in DOMAIN p1_dict
                        /\ x \in DOMAIN p2_dict
                        /\ IsFloat(p1_dict[x])
                        /\ IsFloat(p2_dict[x])} |->
                [P |-> p1_dict[st], Q |-> p2_dict[st],
                 difference |-> FloatSub(p1_dict[st], p2_dict[st])]]
    ELSE EmptyDict

\* compare_players, lines 366-439; season 0 stands for None
ComparePlayersBody(player1, player2, stat_type, season) ==
    IF player1.exc # "none" THEN Raised(player1.exc)
    ELSE IF player2.exc # "none" THEN Raised(player2.exc)
    ELSE IF IsEmpty(player1.df) \/ IsEmpty(player2.df)
         THEN Return(ErrorMapping("Could not find stats for one or both players"))
    ELSE IF ~Has(player1.df.cols, "SEASON") \/ ~Has(player2.df.cols, "SEASON")
         THEN Raised("KeyError")
    ELSE IF season # 0
         THEN LET season_str == SeasonStr(season)
                  p1_season == SeasonEq(player1.df, season_str)
                  p2_season == SeasonEq(player2.df, season_str)
              IN IF IsEmpty(p1_season) \/ IsEmpty(p2_season)
                 THEN Return(ErrorMapping("One or both players didn't play in " \o season_str))
                 ELSE Return([season |-> season_str,
                              stat_type |-> stat_type,
                              player1 |-> [name |-> PlayerName,
                                           stats |-> RowDict(p1_season, 1)],
                              player2 |-> [name |-> Player2Name,
                                           stats |-> RowDict(p2_season, 1)]])
    ELSE LET p1_career == SeasonEq(player1.df, "Career")
             p2_career == SeasonEq(player2.df, "Career")
         IN Return([comparison_type |-> "career",
                    stat_type |-> stat_type,
                    player1 |-> [name |-> PlayerName,
                                 career_stats |-> FirstRecordOrEmpty(p1_career),
                                 total_seasons |-> Len(SeasonNe(player1.df, "Career").rows)],
                    player2 |-> [name |-> Player2Name,
                                 career_stats |-> FirstRecordOrEmpty(p2_career),
                                 total_seasons |-> Len(SeasonNe(player2.df, "Career").rows)],
                    statistical_comparison |->
                        StatisticalComparison(stat_type, p1_career, p2_career)])

\* up_regular is the page of player1, up_playoff stands for the page of player2
compare_players(up_player1, up_player2, stat_type, season) ==
    HandlerBoundary(ComparePlayersBody(Brs(up_player1, stat_type, FALSE),
                                       Brs(up_player2, stat_type, FALSE),
                                       stat_type, season))

\* what @mcp.tool() leaves bound to the handler's name: the function itself,
\* or a FunctionTool object (tests/test_integration.py reaches the function
\* through its .fn attribute) that cannot be called
ToolBindings == {"function", "FunctionTool"}

\* get_player_game_log, lines 760-795
GameLogBody(tool_binding, up_regular, up_playoff, season, playoffs) ==
    IF tool_binding # "function" THEN Raised("TypeError")
    ELSE LET inner == get_player_season_stats(up_regular, up_playoff, season,
                                              "PER_GAME", FALSE)
             season_stats == inner.ret
             reg_season == IF "regular_season" \in DOMAIN season_stats
                           THEN season_stats.regular_season ELSE EmptyDict
             result == [player_name |-> PlayerName,
                        season |-> SeasonStr(season),
                        type |-> IF playoffs THEN "playoffs" ELSE "regular_season",
                        summary |-> [games_played |-> Get(reg_season, "G"),
                                     average_points |-> Get(reg_season, "PTS"),
                                     average_rebounds |-> Get(reg_season, "TRB"),
                                     average_assists |-> Get(reg_season, "AST"),
                                     shooting_percentage |-> Get(reg_season, "FG%"),
                                     three_point_percentage |-> Get(reg_season, "3P%")],
                        note |-> "Individual game logs would require additional implementation"]
         IN IF inner.exc # "none" THEN Raised(inner.exc)
            ELSE IF "error" \in DOMAIN season_stats THEN Return(season_stats)
            ELSE IF playoffs /\ "playoffs" \in DOMAIN season_stats
                 THEN Return(result @@
                        [playoff_summary |->
                            [games_played |-> Get(season_stats.playoffs, "G"),
                             average_points |-> Get(season_stats.playoffs, "PTS"),
                             average_rebounds |-> Get(season_stats.playoffs, "TRB"),
                             average_assists |-> Get(season_stats.playoffs, "AST")]])
            ELSE Return(result)

get_player_game_log(tool_binding, up_regular, up_playoff, season, playoffs) ==
    HandlerBoundary(GameLogBody(tool_binding, up_regular, up_playoff, season, playoffs))

(***************************************************************************)
(* State machine: start-up, then one request at a time.                    *)
(***************************************************************************)
NoCall == [op |-> "none"]

\* the invocations the hosting runtime has in flight
TaskIds == {1, 2}

IdleTask == [state |-> "idle"]

\* the upstream page at this moment; the one-request-at-a-time
\* specification draws the page with each request instead
NoSite == [regular |-> UpNotFound, playoff |-> UpNotFound]

Init ==
    /\ pc \in {"package", "server"}
    /\ fix_loaded = FALSE
    /\ players_get_stats = "get_stats"
    /\ brs_get_stats = "unbound"
    /\ call = NoCall
    /\ site = NoSite
    /\ tasks = [i \in TaskIds |-> IdleTask]

\* the module executed without the assignment of line 97
ExecFixModuleNoPatch ==
    /\ fix_loaded' = TRUE
    /\ UNCHANGED players_get_stats

\* fix_basketball_reference.py executed to its last line
ExecFixModule ==
    /\ fix_loaded' = TRUE
    /\ players_get_stats' = "get_stats_fixed"

NextPc(p) == IF p = "package" THEN "server" ELSE "bind"

\* `import fix_basketball_reference` succeeds (src/__init__.py, server.py)
ImportFixOk ==
    /\ pc \in {"package", "server"}
    /\ IF fix_loaded THEN UNCHANGED <<fix_loaded, players_get_stats>> ELSE ExecFixModule
    /\ pc' = NextPc(pc)
    /\ UNCHANGED <<brs_get_stats, call, site, tasks>>

\* the import raises and the except clause swallows it
ImportFixFails ==
    /\ pc \in {"package", "server"}
    /\ ~fix_loaded
    /\ pc' = NextPc(pc)
    /\ UNCHANGED <<fix_loaded, players_get_stats, brs_get_stats, call, site, tasks>>

\* server.py line 29: from ...players import get_stats as brs_get_stats
BindServer ==
    /\ pc = "bind"
    /\ brs_get_stats' = players_get_stats
    /\ pc' = "serving"
    /\ UNCHANGED <<fix_loaded, players_get_stats, call, site, tasks>>

Ups == {UpNotFound, UpFetchFailed, UpNoTable} \cup {UpTable(r) : r \in RawTables}

HandlerUps == {UpNotFound, UpFetchFailed, UpNoTable} \cup {UpTable(r) : r \in HandlerTables}

SmallUps == {UpNotFound, UpFetchFailed, UpNoTable} \cup {UpTable(r) : r \in SmallTables}

\* both tables of a request belong to the page of one player
SamePlayer(up1, up2) == (up1.kind = "not_found") <=> (up2.kind = "not_found")

UpHas(stat_type, up) == up.kind = "table" => PageHas(stat_type, up.raw)

HandlerStatTypes == {"PER_GAME", "ADVANCED", "PER_MINUTE"}

\* 0 stands for season=None
Seasons == {0, 2022, 2023}

\* season years at the edges of the label format
EdgeSeasons == {999, 1000, 2000, 12345}

Request(op, args, up_regular, up_playoff, out) ==
    [op |-> op, args |-> args, up_regular |-> up_regular, up_playoff |-> up_playoff,
     reached |-> brs_get_stats, out |-> out]

Respond(request) ==
    /\ call' = request
    /\ pc' = "responded"
    /\ UNCHANGED <<fix_loaded, players_get_stats, brs_get_stats, site, tasks>>

\* one category is run against every table, the others against the tables
\* of the handlers
DeepStatTypes == {"PER_GAME"}

\* a direct call of get_stats_fixed (example_usage.py style)
CallGetStatsFixed ==
    /\ pc = "serving"
    /\ fix_loaded
    /\ \E stat_type \in StatTypes, playoffs \in BOOLEAN, career \in BOOLEAN :
       \E up \in (IF stat_type \in DeepStatTypes THEN Ups ELSE HandlerUps) :
          /\ UpHas(stat_type, up)
          /\ Respond([op |-> "get_stats_fixed", stat_type |-> stat_type,
                      playoffs |-> playoffs, career |-> career, up |-> up,
                      fetched |-> Fetches(up, stat_type, playoffs),
                      out |-> get_stats_fixed(up, stat_type, playoffs, career)])

Patched == pc = "serving" /\ brs_get_stats = "get_stats_fixed"

CallCareerStats ==
    /\ Patched
    /\ \E stat_type \in HandlerStatTypes \cup {"per_game"},
          up_regular \in HandlerUps, up_playoff \in SmallUps :
          /\ SamePlayer(up_regular, up_playoff)
          /\ UpHas(stat_type, up_regular)
          /\ up_playoff.kind = "table" => stat_type = "PER_GAME"
          /\ Respond(Request("get_player_career_stats", [stat_type |-> stat_type],
                             up_regular, up_playoff,
                             get_player_career_stats(up_regular, up_playoff, stat_type)))

CallTotals ==
    /\ Patched
    /\ \E season \in Seasons \cup EdgeSeasons, up_regular \in HandlerUps :
          Respond(Request("get_player_totals", [season |-> season],
                          up_regular, up_regular,
                          get_player_totals(up_regular, season)))

CallShootingSplits ==
    /\ Patched
    /\ \E season \in Seasons, up_regular \in HandlerUps :
          Respond(Request("get_player_shooting_splits", [season |-> season],
                          up_regular, up_regular,
                          get_player_shooting_splits(up_regular, season)))

CallPlayoffStats ==
    /\ Patched
    /\ \E stat_type \in HandlerStatTypes, up_regular \in SmallUps, up_playoff \in HandlerUps :
          /\ SamePlayer(up_regular, up_playoff)
          /\ UpHas(stat_type, up_playoff)
          /\ up_regular.kind = "table" => stat_type = "PER_GAME"
          /\ Respond(Request("get_player_playoff_stats", [stat_type |-> stat_type],
                             up_regular, up_playoff,
                             get_player_playoff_stats(up_regular, up_playoff, stat_type)))

CallSeasonStats ==
    /\ Patched
    /\ \E season \in Seasons \ {0}, stat_type \in HandlerStatTypes,
          include_playoffs \in BOOLEAN, up_regular \in HandlerUps, up_playoff \in SmallUps :
          /\ SamePlayer(up_regular, up_playoff)
          /\ UpHas(stat_type, up_regular)
          /\ ~include_playoffs => up_playoff \in {UpNotFound, UpNoTable}
          /\ include_playoffs => (season = 2022 /\ stat_type # "PER_MINUTE")
          /\ Respond(Request("get_player_season_stats",
                             [season |-> season, stat_type |-> stat_type,
                              include_playoffs |-> include_playoffs],
                             up_regular, up_playoff,
                             get_player_season_stats(up_regular, up_playoff, season,
                                                     stat_type, include_playoffs)))

CallGameLog ==
    /\ Patched
    /\ \E tool_binding \in ToolBindings, season \in Seasons \ {0}, playoffs \in BOOLEAN,
          up_regular \in HandlerUps, up_playoff \in SmallUps :
          /\ SamePlayer(up_regular, up_playoff)
          /\ up_playoff.kind # "fetch_failed"
          /\ up_playoff.kind = "table" =>
                (playoffs /\ tool_binding = "function" /\ season = 2022)
          /\ tool_binding = "FunctionTool" => (~playoffs /\ season = 2022)
          /\ Respond(Request("get_player_game_log",
                             [tool_binding |-> tool_binding, season |-> season,
                              playoffs |-> playoffs],
                             up_regular, up_playoff,
                             get_player_game_log(tool_binding, up_regular, up_playoff,
                                                 season, playoffs)))

\* the tables of the second player of a comparison
CompareTables ==
    {RawTable(LayoutGames, s) :
        s \in SeqsUpTo((SeasonCells \ {NaN}) \X {MaskNone}, 2)}

CompareUps == {UpNotFound, UpFetchFailed, UpNoTable} \cup {UpTable(r) : r \in CompareTables}

CallComparePlayers ==
    /\ Patched
    /\ \E stat_type \in {"PER_GAME", "ADVANCED"}, season \in {0, 2022},
          up_player1 \in HandlerUps, up_player2 \in CompareUps :
          /\ UpHas(stat_type, up_player1)
          /\ stat_type = "ADVANCED" => (season = 0 /\ up_player2.kind # "table")
          /\ Respond(Request("compare_players", [stat_type |-> stat_type, season |-> season],
                             up_player1, up_player2,
                             compare_players(up_player1, up_player2, stat_type, season)))

\* the binding is the library's own get_stats: the handler runs the
\* normaliser of basketball_reference_scraper, not the one of this repository
CallHandlerUnpatched ==
    /\ pc = "serving"
    /\ brs_get_stats = "get_stats"
    /\ \E op \in {"get_player_career_stats", "get_player_totals", "get_player_shooting_splits",
                  "get_player_playoff_stats", "get_player_season_stats",
                  "get_player_game_log", "compare_players"} :
          Respond([op |-> op, reached |-> brs_get_stats])

\* the caller consumes the result; nothing of the request survives
Discard ==
    /\ pc = "responded"
    /\ call' = NoCall
    /\ pc' = "serving"
    /\ UNCHANGED <<fix_loaded, players_get_stats, brs_get_stats, site, tasks>>

Next ==
    \/ ImportFixOk
    \/ ImportFixFails
    \/ BindServer
    \/ CallGetStatsFixed
    \/ CallCareerStats
    \/ CallTotals
    \/ CallShootingSplits
    \/ CallPlayoffStats
    \/ CallSeasonStats
    \/ CallGameLog
    \/ CallComparePlayers
    \/ CallHandlerUnpatched
    \/ Discard

Spec == Init /\ [][Next]_vars

(***************************************************************************)
(* State machine of concurrent invocations: the runtime has up to two      *)
(* handler invocations in flight, each with its own locals; an invocation  *)
(* advances by one brs_get_stats call at a time, and the upstream page may *)
(* change between any two steps.                                           *)
(***************************************************************************)
ConcTables ==
    {RawTable(LayoutGames, s) : s \in SeqsUpTo({"2021-22"} \X {MaskNone}, MaxSmallRows)}

ConcUps == {UpFetchFailed} \cup {UpTable(r) : r \in ConcTables}

Sites == [regular : ConcUps, playoff : ConcUps]

ConcOps == {"get_player_career_stats", "get_player_playoff_stats"}

InitConcurrent ==
    /\ pc \in {"package", "server"}
    /\ fix_loaded = FALSE
    /\ players_get_stats = "get_stats"
    /\ brs_get_stats = "unbound"
    /\ call = NoCall
    /\ site \in Sites
    /\ tasks = [i \in TaskIds |-> IdleTask]

\* the part of the page the first and the second brs_get_stats call of a
\* handler read (server.py 100-113 and 660-684)
FirstUp(op, s) == IF op = "get_player_career_stats" THEN s.regular ELSE s.playoff

SecondUp(op, s) == IF op = "get_player_career_stats" THEN s.playoff ELSE s.regular

FirstOf(op, s) == Brs(FirstUp(op, s), "PER_GAME", op # "get_player_career_stats")

SecondOf(op, s) == Brs(SecondUp(op, s), "PER_GAME", op = "get_player_career_stats")

\* the handler reaches its second brs_get_stats call
NeedsSecond(op, first) ==
    /\ first.exc = "none"
    /\ op = "get_player_playoff_stats" =>
          (~IsEmpty(first.df) /\ Has(first.df.cols, "SEASON"))

BodyOf(op, first, second) ==
    IF op = "get_player_career_stats" THEN CareerStatsBody(first, second, "PER_GAME")
    ELSE PlayoffStatsBody(first, second, "PER_GAME")

ConcServing == Patched /\ UNCHANGED <<pc, fix_loaded, players_get_stats, brs_get_stats, call>>

\* the runtime starts a handler
Invoke(i) ==
    /\ ConcServing
    /\ tasks[i].state = "idle"
    /\ \E op \in ConcOps : tasks' = [tasks EXCEPT ![i] = [state |-> "started", op |-> op]]
    /\ UNCHANGED site

\* the first call reuses the table another invocation of the same handler
\* holds, instead of fetching
FetchFirstCached(i) ==
    /\ ConcServing
    /\ tasks[i].state = "started"
    /\ LET op == tasks[i].op
           other == CHOOSE j \in TaskIds : j # i
           first == IF tasks[other].state \in {"fetched1", "done"} /\ tasks[other].op = op
                    THEN tasks[other].first
                    ELSE FirstOf(op, site)
       IN tasks' = [tasks EXCEPT ![i] =
            IF NeedsSecond(op, first)
            THEN [state |-> "fetched1", op |-> op,
                  seen |-> [first |-> FirstUp(op, site)], first |-> first]
            ELSE [state |-> "done", op |-> op,
                  seen |-> [first |-> FirstUp(op, site), second |-> UpNoTable],
                  first |-> first,
                  out |-> HandlerBoundary(BodyOf(op, first, Ok(EmptyDataFrame)))]]
    /\ UNCHANGED site

\* the first brs_get_stats call of the handler, and its return when the
\* handler does not reach the second one
FetchFirst(i) ==
    /\ ConcServing
    /\ tasks[i].state = "started"
    /\ LET op == tasks[i].op
           first == FirstOf(op, site)
       IN tasks' = [tasks EXCEPT ![i] =
            IF NeedsSecond(op, first)
            THEN [state |-> "fetched1", op |-> op,
                  seen |-> [first |-> FirstUp(op, site)], first |-> first]
            ELSE [state |-> "done", op |-> op,
                  seen |-> [first |-> FirstUp(op, site), second |-> UpNoTable],
                  first |-> first,
                  out |-> HandlerBoundary(BodyOf(op, first, Ok(EmptyDataFrame)))]]
    /\ UNCHANGED site

\* the handler keeps its first table in a module global that the other
\* invocation overwrites
FetchSecondShared(i) ==
    /\ ConcServing
    /\ tasks[i].state = "fetched1"
    /\ LET op == tasks[i].op
           other == CHOOSE j \in TaskIds : j # i
           first == IF tasks[other].state = "fetched1" THEN tasks[other].first
                    ELSE tasks[i].first
           second == SecondOf(op, site)
       IN tasks' = [tasks EXCEPT ![i] =
            [state |-> "done", op |-> op,
             seen |-> [first |-> tasks[i].seen.first, second |-> SecondUp(op, site)],
             first |-> tasks[i].first,
             out |-> HandlerBoundary(BodyOf(op, first, second))]]
    /\ UNCHANGED site

\* the second brs_get_stats call of the handler and its return
FetchSecond(i) ==
    /\ ConcServing
    /\ tasks[i].state = "fetched1"
    /\ LET op == tasks[i].op
           first == tasks[i].first
           second == SecondOf(op, site)
       IN tasks' = [tasks EXCEPT ![i] =
            [state |-> "done", op |-> op,
             seen |-> [first |-> tasks[i].seen.first, second |-> SecondUp(op, site)],
             first |-> tasks[i].first,
             out |-> HandlerBoundary(BodyOf(op, first, second))]]
    /\ UNCHANGED site

\* the runtime delivers the result; the locals of the invocation are gone
Collect(i) ==
    /\ ConcServing
    /\ tasks[i].state = "done"
    /\ tasks' = [tasks EXCEPT ![i] = IdleTask]
    /\ UNCHANGED site

\* the upstream site publishes other data
UpstreamChanges ==
    /\ ConcServing
    /\ \E s \in Sites : s # site /\ site' = s
    /\ UNCHANGED tasks

NextConcurrent ==
    \/ ImportFixOk
    \/ ImportFixFails
    \/ BindServer
    \/ \E i \in TaskIds : Invoke(i)
    \/ \E i \in TaskIds : FetchFirst(i)
    \/ \E i \in TaskIds : FetchSecond(i)
    \/ \E i \in TaskIds : Collect(i)
    \/ UpstreamChanges

SpecConcurrent == InitConcurrent /\ [][NextConcurrent]_vars

(***************************************************************************)
(* State machine of the rename pass alone (lines 63-70), applied to a      *)
(* header of any labels and then to its own output.                        *)
(***************************************************************************)
\* the labels lines 63-70 name, as keys and as targets, and two they do not
ColumnLabels ==
    {"Season", "Age", "Tm", "Lg", "Pos", "Awards", "FG.1", "eFG", "FT.1",
     "SEASON", "AGE", "TEAM", "LEAGUE", "POS", "AWARDS", "FG%", "eFG%", "FT%",
     "FG", "PTS"}

Headers == SeqsUpTo(ColumnLabels, MaxCols)

InitRename ==
    /\ pc = "header"
    /\ fix_loaded = TRUE
    /\ players_get_stats = "get_stats_fixed"
    /\ brs_get_stats = "get_stats_fixed"
    /\ call = NoCall
    /\ site = NoSite
    /\ tasks = [i \in TaskIds |-> IdleTask]

\* lines 63-70 run on a parsed header, and once more on the result
ApplyRename ==
    /\ pc = "header"
    /\ \E cols \in Headers :
          call' = [op |-> "rename", cols |-> cols,
                   once |-> RenamePass(cols),
                   twice |-> RenamePass(RenamePass(cols))]
    /\ pc' = "renamed"
    /\ UNCHANGED <<fix_loaded, players_get_stats, brs_get_stats, site, tasks>>

\* the next header is parsed
NextHeader ==
    /\ pc = "renamed"
    /\ call' = NoCall
    /\ pc' = "header"
    /\ UNCHANGED <<fix_loaded, players_get_stats, brs_get_stats, site, tasks>>

NextRename ==
    \/ ApplyRename
    \/ NextHeader

SpecRename == InitRename /\ [][NextRename]_vars

(***************************************************************************)
(* Properties of get_stats_fixed, stated on the recorded call against the  *)
(* raw table the upstream delivered.                                       *)
(***************************************************************************)
IsDirect == pc = "responded" /\ call.op = "get_stats_fixed"

\* the call fetched the table and normalised it
TableCall ==
    /\ IsDirect
    /\ call.up.kind = "table"
    /\ FetchPath(Lower(call.stat_type), call.playoffs) # "none"
    /\ TableId(Lower(call.stat_type), call.playoffs) \in PageTableIds

\* positions of the raw rows whose Season cell (first column) is Career
RawCareer(raw) == {i \in DOMAIN raw.rows : raw.rows[i][1] = "Career"}

\* a raw row restricted to the columns the category keeps
KeptRow(raw, i, stat_type) ==
    PickFrom(raw.rows[i],
             {j \in DOMAIN raw.cols :
                ~(Lower(stat_type) = "advanced" /\ raw.cols[j] \in {"G", "MP"})}, 1)

\* the raw rows at positions lo..hi, restricted to the kept columns
KeptRows(raw, lo, hi, stat_type) ==
    [i \in 1..(IF hi >= lo THEN hi - lo + 1 ELSE 0) |-> KeptRow(raw, lo + i - 1, stat_type)]

\* C1: a raw table with exactly one Career row at index k yields exactly the
\* first k rows with career=False and the rows from index k+2 on with
\* career=True
C1_CareerSplit ==
    (TableCall /\ Cardinality(RawCareer(call.up.raw)) = 1) =>
        LET raw == call.up.raw
            k == Min(RawCareer(raw)) - 1
        IN /\ call.out.exc = "none"
           /\ call.out.df.rows =
                 IF call.career THEN KeptRows(raw, k + 3, Len(raw.rows), call.stat_type)
                 ELSE KeptRows(raw, 1, k, call.stat_type)

\* C4: with category ADVANCED a table that has the G and MP columns comes
\* back, without a raise, with neither column
C4_AdvancedDropsGamesAndMinutes ==
    (/\ TableCall
     /\ Lower(call.stat_type) = "advanced"
     /\ Has(call.up.raw.cols, "G")
     /\ Has(call.up.raw.cols, "MP")) =>
        /\ call.out.exc = "none"
        /\ ~Has(call.out.df.cols, "G")
        /\ ~Has(call.out.df.cols, "MP")

\* C5: a raw table without rows yields, without a raise, a table without
\* rows, whatever the category and the flags
C5_EmptyTableStaysEmpty ==
    (TableCall /\ Len(call.up.raw.rows) = 0) =>
        /\ call.out.exc = "none"
        /\ Len(call.out.df.rows) = 0

C5_Witness ==
    /\ TableCall
    /\ Len(call.up.raw.rows) = 0
    /\ call.stat_type = "ADVANCED"
    /\ call.playoffs
    /\ call.career
    /\ call.out.exc = "none"
    /\ IsEmpty(call.out.df)

\* position of the first row the call retains, 0 when it retains none
FirstRetained(raw, career) ==
    IF RawCareer(raw) = {} THEN (IF Len(raw.rows) > 0 THEN 1 ELSE 0)
    ELSE IF career
         THEN (IF Min(RawCareer(raw)) + 2 <= Len(raw.rows) THEN Min(RawCareer(raw)) + 2 ELSE 0)
         ELSE (IF Min(RawCareer(raw)) > 1 THEN 1 ELSE 0)

\* the label the fixed renames of lines 63-70 give a raw label
ExpectedLabel(l) ==
    CASE l = "Season" -> "SEASON"
      [] l = "FG.1" -> "FG%"
      [] l = "FT.1" -> "FT%"
      [] OTHER -> l

NoMissing(row) == \A j \in DOMAIN row : row[j] # NaN

\* C6 as claimed: without a Career row every row and every column comes
\* back, labels renamed only, and a second normalisation changes nothing
C6_PassThroughIdempotent ==
    (TableCall /\ RawCareer(call.up.raw) = {}) =>
        /\ call.out.exc = "none"
        /\ call.out.df.rows = call.up.raw.rows
        /\ Len(call.out.df.cols) = Len(call.up.raw.cols)
        /\ Normalize(call.out.df, Lower(call.stat_type), call.career) = call.out

\* C6 amended: without a Career row and without a missing value in the first
\* row, every row comes back in order, the columns carry the fixed renames
\* and none is removed except G and MP for ADVANCED, and for the other
\* categories a second normalisation yields the same table
C6_PassThroughAmended ==
    (/\ TableCall
     /\ RawCareer(call.up.raw) = {}
     /\ (Len(call.up.raw.rows) > 0 => NoMissing(call.up.raw.rows[1]))) =>
        LET raw == call.up.raw
            kept == {j \in DOMAIN raw.cols :
                        ~(Lower(call.stat_type) = "advanced" /\ raw.cols[j] \in {"G", "MP"})}
        IN /\ call.out.exc = "none"
           /\ call.out.df.rows = KeptRows(raw, 1, Len(raw.rows), call.stat_type)
           /\ call.out.df.cols =
                 PickFrom([j \in DOMAIN raw.cols |-> ExpectedLabel(raw.cols[j])], kept, 1)
           /\ Lower(call.stat_type) # "advanced" =>
                 Normalize(call.out.df, Lower(call.stat_type), call.career) = call.out

C6_Witness ==
    /\ TableCall
    /\ RawCareer(call.up.raw) = {}
    /\ Len(call.up.raw.rows) >= 2
    /\ NoMissing(call.up.raw.rows[1])
    /\ ~NoMissing(call.up.raw.rows[2])
    /\ call.up.raw.cols = LayoutGames
    /\ call.stat_type = "PER_GAME"
    /\ call.out.exc = "none"
    /\ Len(call.out.df.rows) = Len(call.up.raw.rows)

\* the raw table has a label at two positions, the second one suffixed
Duplicated(raw) == Has(raw.cols, "FG.1") /\ Has(raw.cols, "FT.1")

NamesCountAndPercentage(raw, out) ==
    /\ out.exc = "none"
    /\ out.df.cols[Pos(raw.cols, "FG")] = "FG"
    /\ out.df.cols[Pos(raw.cols, "FG.1")] = "FG%"
    /\ out.df.cols[Pos(raw.cols, "FT")] = "FT"
    /\ out.df.cols[Pos(raw.cols, "FT.1")] = "FT%"

SeasonLabels == SeasonCells \ {"Career", NaN}

\* the Season cells (first column) of a sequence of rows
WellLabelled(rows) ==
    /\ \A i \in DOMAIN rows : rows[i][1] \in SeasonLabels \cup {"Career"}
    /\ Cardinality({i \in DOMAIN rows : rows[i][1] = "Career"}) <= 1

HandlerOps ==
    {"get_player_career_stats", "get_player_totals", "get_player_shooting_splits",
     "get_player_playoff_stats", "get_player_season_stats", "get_player_game_log"}

\* a handler ran against the normaliser of this repository
IsHandler(op) == pc = "responded" /\ call.op = op /\ call.reached = "get_stats_fixed"

\* the regular-season table of the page has a Career row after at least
\* one season row, and its first row has no missing value
RegularHasCareer ==
    /\ call.up_regular.kind = "table"
    /\ RawCareer(call.up_regular.raw) # {}
    /\ Min(RawCareer(call.up_regular.raw)) > 1
    /\ NoMissing(call.up_regular.raw.rows[1])

\* the mapping is the record of a Career row
IsCareerRecord(m) == "SEASON" \in DOMAIN m /\ m["SEASON"] = "Career"

\* C2: when the source table has a Career row, career_regular_season and
\* career_totals carry that row, and the shooting splits without a season
\* carry career_shooting and best_shooting_seasons
C2_CareerFieldCarriesCareerRow ==
    /\ (IsHandler("get_player_career_stats") /\ RegularHasCareer) =>
          /\ "career_regular_season" \in DOMAIN call.out.ret
          /\ IsCareerRecord(call.out.ret.career_regular_season)
    /\ (IsHandler("get_player_totals") /\ call.args.season = 0 /\ RegularHasCareer) =>
          /\ "career_totals" \in DOMAIN call.out.ret
          /\ IsCareerRecord(call.out.ret.career_totals)
    /\ (IsHandler("get_player_shooting_splits") /\ call.args.season = 0
           /\ RegularHasCareer) =>
          {"career_shooting", "best_shooting_seasons"} \subseteq DOMAIN call.out.ret

\* the first table the handler reads
Primary ==
    CASE call.op = "get_player_career_stats" -> Brs(call.up_regular, call.args.stat_type, FALSE)
      [] call.op = "get_player_season_stats" -> Brs(call.up_regular, call.args.stat_type, FALSE)
      [] call.op = "get_player_playoff_stats" -> Brs(call.up_playoff, call.args.stat_type, TRUE)
      [] call.op = "get_player_totals" -> Brs(call.up_regular, "TOTALS", FALSE)
      [] call.op = "get_player_shooting_splits" -> Brs(call.up_regular, "PER_GAME", FALSE)
      [] call.op = "get_player_game_log" -> Brs(call.up_regular, "PER_GAME", FALSE)

\* the entity or the table is missing, or the fetch raised
UpstreamFailed == Primary.exc # "none" \/ IsEmpty(Primary.df)

IsErrorMapping(m) == DOMAIN m = {"error"} /\ m.error \in STRING

\* the handler get_player_game_log delegates to, on the same page
Delegate ==
    get_player_season_stats(call.up_regular, call.up_playoff, call.args.season,
                            "PER_GAME", FALSE)

\* C3 as claimed: a handler returns a mapping and never raises; on failure
\* the mapping is exactly {error: string}; a wrapper passes the error mapping
\* of the handler it delegates to unchanged
C3_ErrorMappingOnFailure ==
    (pc = "responded" /\ call.op \in HandlerOps /\ call.reached = "get_stats_fixed") =>
        /\ call.out.exc = "none"
        /\ UpstreamFailed => IsErrorMapping(call.out.ret)
        /\ (call.op = "get_player_game_log" /\ "error" \in DOMAIN Delegate.ret) =>
              call.out.ret = Delegate.ret

\* C3 amended: a handler returns a mapping and never raises; a mapping with
\* the key error has no other key and a string value; on failure the handler
\* returns it, except get_player_playoff_stats, which answers an empty
\* playoff table with player_name, message and playoff_appearances 0; a
\* wrapper passes the delegate's error mapping unchanged when the decorated
\* name is callable and returns an error mapping of its own when it is not
C3_ErrorMappingAmended ==
    (pc = "responded" /\ call.op \in HandlerOps /\ call.reached = "get_stats_fixed") =>
        /\ call.out.exc = "none"
        /\ "error" \in DOMAIN call.out.ret => IsErrorMapping(call.out.ret)
        /\ UpstreamFailed =>
              IF call.op = "get_player_playoff_stats" /\ Primary.exc = "none"
              THEN /\ DOMAIN call.out.ret = {"player_name", "message", "playoff_appearances"}
                   /\ call.out.ret.playoff_appearances = 0
              ELSE IsErrorMapping(call.out.ret)
        /\ call.op = "get_player_game_log" =>
              IF call.args.tool_binding = "function"
              THEN "error" \in DOMAIN Delegate.ret => call.out.ret = Delegate.ret
              ELSE IsErrorMapping(call.out.ret)

C3_Witness ==
    /\ IsHandler("get_player_game_log")
    /\ call.args.tool_binding = "function"
    /\ call.up_regular.kind = "fetch_failed"
    /\ call.out.exc = "none"
    /\ call.out.ret = ErrorMapping("ConnectionError")

\* C9: every handler call reaches get_stats_fixed, never the library's
\* get_stats, whatever the start-up sequence was
C9_HandlersReachFixed ==
    (pc = "responded" /\ call.op \in HandlerOps) => call.reached = "get_stats_fixed"

\* C10: once the fix module is imported, players.get_stats is
\* get_stats_fixed in every later state
C10_PatchStays == fix_loaded => players_get_stats = "get_stats_fixed"

C10_Witness ==
    /\ fix_loaded
    /\ IsHandler("get_player_career_stats")
    /\ call.out.exc = "none"
    /\ players_get_stats = "get_stats_fixed"

(***************************************************************************)
(* Properties of the career flag and of the comparison handler.            *)
(***************************************************************************)
\* C11: with career=True the first row of the returned table is the row the
\* source labels Career
C11_CareerFlagReturnsCareerRow ==
    (/\ TableCall
     /\ call.career
     /\ RawCareer(call.up.raw) # {}
     /\ call.out.exc = "none") =>
        /\ Len(call.out.df.rows) > 0
        /\ call.out.df.rows[1] =
              KeptRow(call.up.raw, Min(RawCareer(call.up.raw)), call.stat_type)

\* the page of the second player has a Career row after at least one season
\* row
Player2HasCareer ==
    /\ call.up_playoff.kind = "table"
    /\ RawCareer(call.up_playoff.raw) # {}
    /\ Min(RawCareer(call.up_playoff.raw)) > 1
    /\ NoMissing(call.up_playoff.raw.rows[1])

\* the record of the Career row of a raw table, under the returned labels
RawCareerRecord(raw) ==
    LET i == Min(RawCareer(raw))
    IN [l \in {ExpectedLabel(raw.cols[j]) : j \in DOMAIN raw.cols} |->
            raw.rows[i][CHOOSE j \in DOMAIN raw.cols : ExpectedLabel(raw.cols[j]) = l]]

\* C12: a career comparison with PER_GAME returns comparison_type career,
\* each player's Career row as career_stats, and for every compared stat
\* both rows hold an entry whose difference is player1 minus player2
C12_CareerComparison ==
    (/\ IsHandler("compare_players")
     /\ call.args.season = 0
     /\ call.args.stat_type = "PER_GAME"
     /\ RegularHasCareer
     /\ Player2HasCareer) =>
        LET c1 == RawCareerRecord(call.up_regular.raw)
            c2 == RawCareerRecord(call.up_playoff.raw)
            ret == call.out.ret
        IN /\ "comparison_type" \in DOMAIN ret
           /\ ret.comparison_type = "career"
           /\ ret.player1.career_stats = c1
           /\ ret.player2.career_stats = c2
           /\ \A st \in ComparedStats :
                 (st \in DOMAIN c1 /\ st \in DOMAIN c2 /\ IsNum(c1[st]) /\ IsNum(c2[st])) =>
                    /\ st \in DOMAIN ret.statistical_comparison
                    /\ ret.statistical_comparison[st].difference =
                          NumVal(c1[st]) - NumVal(c2[st])

(***************************************************************************)
(* Properties of the table selection and of the upstream outcomes.         *)
(***************************************************************************)
\* the category a stat_type argument names, whatever its letter case
CategoryOf(stat_type) ==
    CASE stat_type = "per_game" -> "PER_GAME"
      [] stat_type = "Per_Poss" -> "PER_POSS"
      [] OTHER -> stat_type

\* the table of the player page that holds a category
CategoryTable(category) ==
    CASE category = "PER_GAME" -> "per_game_stats"
      [] category = "TOTALS" -> "totals_stats"
      [] category = "PER_MINUTE" -> "per_minute_stats"
      [] category \in {"PER_POSS", "PER_POSSESSION"} -> "per_poss_stats"
      [] category = "ADVANCED" -> "advanced"

\* the page has the table of the category and the call retains a row of it
\* whose cells are all present
RetainsCleanRow ==
    /\ IsDirect
    /\ call.up.kind = "table"
    /\ FirstRetained(call.up.raw, call.career) # 0
    /\ NoMissing(call.up.raw.rows[FirstRetained(call.up.raw, call.career)])

\* the call asked for the table of its category and returned rows of it
FetchedCategoryTable ==
    /\ Len(call.fetched) = 1
    /\ call.fetched[1].table_id =
          CategoryTable(CategoryOf(call.stat_type)) \o (IF call.playoffs THEN "_post" ELSE "")
    /\ call.out.exc = "none"
    /\ ~IsEmpty(call.out.df)

\* C13 as claimed: for every category of PER_GAME, TOTALS, PER_MINUTE,
\* PER_POSSESSION, ADVANCED, in any letter case, the call fetches the table
\* of the category (its _post variant for playoffs) and the result is not
\* empty
C13_CategorySelectsTable ==
    (/\ RetainsCleanRow
     /\ CategoryOf(call.stat_type) \in
            {"PER_GAME", "TOTALS", "PER_MINUTE", "PER_POSSESSION", "ADVANCED"}) =>
        FetchedCategoryTable

\* C13 amended: it does so for the categories PER_GAME, TOTALS, PER_MINUTE,
\* PER_POSS, ADVANCED; PER_POSSESSION is not a category of the code and
\* yields an empty table
C13_CategorySelectsTableAmended ==
    /\ (/\ RetainsCleanRow
         /\ CategoryOf(call.stat_type) \in
                {"PER_GAME", "TOTALS", "PER_MINUTE", "PER_POSS", "ADVANCED"}) =>
            FetchedCategoryTable
    /\ (IsDirect /\ call.stat_type = "PER_POSSESSION") =>
            (call.out.exc = "none" /\ IsEmpty(call.out.df))

C13_Witness ==
    /\ RetainsCleanRow
    /\ call.stat_type = "Per_Poss"
    /\ call.playoffs
    /\ call.fetched = <<[path |-> "selenium", table_id |-> "per_poss_stats_post"]>>
    /\ call.out.exc = "none"
    /\ Len(call.out.df.rows) = 2

\* the handler received the empty table of a player the lookup did not find
PlayerNotFound ==
    /\ pc = "responded"
    /\ call.op \in HandlerOps \cup {"compare_players"}
    /\ call.reached = "get_stats_fixed"
    /\ \/ call.up_regular.kind = "not_found"
       \/ (call.op = "compare_players" /\ call.up_playoff.kind = "not_found")

\* C14: when the lookup finds no player get_stats_fixed returns an empty
\* table, without a fetch and without a raise, and every handler answers
\* with a mapping that carries an error string, or for
\* get_player_playoff_stats a message
C14_NotFoundIsEmptyTable ==
    /\ (IsDirect /\ call.up.kind = "not_found") =>
          /\ call.fetched = <<>>
          /\ call.out = Ok(EmptyDataFrame)
    /\ PlayerNotFound =>
          /\ call.out.exc = "none"
          /\ IF call.op = "get_player_playoff_stats"
             THEN /\ "error" \notin DOMAIN call.out.ret
                  /\ "message" \in DOMAIN call.out.ret
                  /\ call.out.ret.message \in STRING
             ELSE IsErrorMapping(call.out.ret)

C14_Witness ==
    /\ PlayerNotFound
    /\ call.op = "get_player_career_stats"
    /\ call.args.stat_type = "PER_MINUTE"
    /\ Brs(call.up_regular, call.args.stat_type, FALSE) = Ok(EmptyDataFrame)
    /\ call.out.ret = ErrorMapping("No stats found for P")

\* the upstream of the first table the handler reads
PrimaryUp == IF call.op = "get_player_playoff_stats" THEN call.up_playoff ELSE call.up_regular

\* the handler performed the fetch of its first table and the fetch failed
PrimaryFetchFailed ==
    /\ pc = "responded"
    /\ call.op \in HandlerOps
    /\ call.reached = "get_stats_fixed"
    /\ call.op = "get_player_game_log" => call.args.tool_binding = "function"
    /\ PrimaryUp.kind = "fetch_failed"

\* C15: a fetch that fails makes get_stats_fixed raise, on the HTTP path and
\* on the rendered-page path, and the handler returns the error mapping of
\* that raise, never an empty table or a no-stats outcome
C15_FailedFetchRaises ==
    /\ (IsDirect /\ call.up.kind = "fetch_failed" /\ call.fetched # <<>>) =>
          call.out.exc # "none"
    /\ PrimaryFetchFailed =>
          /\ Primary.exc # "none"
          /\ call.out.ret = ErrorMapping(Primary.exc)

(***************************************************************************)
(* Properties of concurrent invocations.                                   *)
(***************************************************************************)
\* what the handler returns when it runs alone against the data `seen`
AloneResult(op, seen) ==
    IF op = "get_player_career_stats"
    THEN get_player_career_stats(seen.first, seen.second, "PER_GAME")
    ELSE get_player_playoff_stats(seen.second, seen.first, "PER_GAME")

LabelOf(Y) == ToString(Y - 1) \o "-" \o TwoDigits(Y % 100)

\* get_player_totals was given a season and read a table with rows
SeasonGiven ==
    /\ IsHandler("get_player_totals")
    /\ call.args.season # 0
    /\ Primary.exc = "none"
    /\ ~IsEmpty(Primary.df)
    /\ Has(Primary.df.cols, "SEASON")

\* the handler selected rows by `label` and echoed it
UsesLabel(label) ==
    IF "season" \in DOMAIN call.out.ret
    THEN call.out.ret.season = label /\ call.out.ret.totals["SEASON"] = label
    ELSE /\ call.out.ret = ErrorMapping("No stats found for P in " \o label)
         /\ IsEmpty(SeasonEq(Primary.df, label))

\* C18 as claimed: for every season year Y the label is (Y-1), a hyphen and
\* the last two digits of Y, and for every four-digit Y it has the shape
\* YYYY-YY
C18_SeasonLabel ==
    SeasonGiven =>
        /\ UsesLabel(LabelOf(call.args.season))
        /\ call.args.season \in 1000..9999 => Len(LabelOf(call.args.season)) = 7

\* C18 amended: the label is so composed for every four-digit Y, and has
\* the shape YYYY-YY for every Y from 1001 to 9999
C18_SeasonLabelAmended ==
    SeasonGiven =>
        /\ call.args.season \in 1000..9999 => UsesLabel(LabelOf(call.args.season))
        /\ call.args.season \in 1001..9999 => Len(LabelOf(call.args.season)) = 7

C18_Witness ==
    /\ SeasonGiven
    /\ \/ /\ call.args.season = 2000
          /\ call.out.ret = ErrorMapping("No stats found for P in 1999-00")
       \/ /\ call.args.season = 2022
          /\ call.out.ret.season = "2021-22"

\* the two tables get_player_season_stats reads
SeasonRegular == Brs(call.up_regular, call.args.stat_type, FALSE)

SeasonPlayoff == Brs(call.up_playoff, call.args.stat_type, TRUE)

\* the call returned a table that has a row labelled `label`
HasRow(t, label) ==
    /\ t.exc = "none"
    /\ Has(t.df.cols, "SEASON")
    /\ ~IsEmpty(SeasonEq(t.df, label))

\* the first row of the table labelled `label`
FirstRow(t, label) ==
    RowDict(t.df, Min({i \in DOMAIN t.df.rows : SeasonOf(t.df, i) = label}))

\* regular_season is the first row of the season, and playoffs is there
\* exactly when it was asked for and the playoff table has a row of the
\* season, then the first one
SeasonResult(label) ==
    LET ret == call.out.ret
    IN /\ "regular_season" \in DOMAIN ret
       /\ ret.regular_season = FirstRow(SeasonRegular, label)
       /\ "playoffs" \in DOMAIN ret <=>
             (call.args.include_playoffs /\ HasRow(SeasonPlayoff, label))
       /\ "playoffs" \in DOMAIN ret => ret.playoffs = FirstRow(SeasonPlayoff, label)

\* C19 as claimed: the error mapping is returned exactly when the regular
\* table is empty or has no row of the season; otherwise the result is the
\* season result
C19_SeasonStatsResult ==
    IsHandler("get_player_season_stats") =>
        LET label == SeasonStr(call.args.season)
            no_row == SeasonRegular.exc = "none" /\ ~HasRow(SeasonRegular, label)
        IN /\ IsErrorMapping(call.out.ret) <=> no_row
           /\ ~no_row => SeasonResult(label)

\* a read of the playoff table raises: the fetch or the normalisation, or
\* the SEASON lookup on a table that lost the column
PlayoffReadRaises(label) ==
    /\ call.args.include_playoffs
    /\ HasRow(SeasonRegular, label)
    /\ \/ SeasonPlayoff.exc # "none"
       \/ (~IsEmpty(SeasonPlayoff.df) /\ ~Has(SeasonPlayoff.df.cols, "SEASON"))

\* C19 amended: the error mapping is returned exactly when a read of a
\* table raises, or the regular table is empty or has no row of the season
C19_SeasonStatsResultAmended ==
    IsHandler("get_player_season_stats") =>
        LET label == SeasonStr(call.args.season)
            failed == \/ ~HasRow(SeasonRegular, label)
                      \/ PlayoffReadRaises(label)
        IN /\ IsErrorMapping(call.out.ret) <=> failed
           /\ ~failed => SeasonResult(label)

C19_Witness ==
    /\ IsHandler("get_player_season_stats")
    /\ call.args.include_playoffs
    /\ call.args.season = 2022
    /\ HasRow(SeasonRegular, "2021-22")
    /\ Len(SeasonEq(SeasonRegular.df, "2021-22").rows) = 2
    /\ HasRow(SeasonPlayoff, "2021-22")
    /\ {"regular_season", "playoffs"} \subseteq DOMAIN call.out.ret
    /\ call.out.ret.regular_season = FirstRow(SeasonRegular, "2021-22")
    /\ call.out.ret.playoffs = FirstRow(SeasonPlayoff, "2021-22")

\* C20: for an empty playoff table get_player_playoff_stats returns
\* player_name, playoff_appearances 0 and a message, without an error; in a
\* result without an error playoff_appearances is 0 only next to a message,
\* and otherwise it is the number of entries of playoff_seasons
C20_NoPlayoffsIsMessage ==
    IsHandler("get_player_playoff_stats") =>
        LET ret == call.out.ret
        IN /\ (Primary.exc = "none" /\ IsEmpty(Primary.df)) =>
                 /\ DOMAIN ret = {"player_name", "message", "playoff_appearances"}
                 /\ ret.player_name = PlayerName
                 /\ ret.playoff_appearances = 0
                 /\ ret.message \in STRING
           /\ "error" \notin DOMAIN ret =>
                 /\ ret.playoff_appearances = 0 => "message" \in DOMAIN ret
                 /\ "message" \notin DOMAIN ret =>
                       ret.playoff_appearances = Len(ret.playoff_seasons)

C20_Witness ==
    /\ IsHandler("get_player_playoff_stats")
    /\ "playoff_seasons" \in DOMAIN call.out.ret
    /\ call.out.ret.playoff_appearances = 2
    /\ Len(call.out.ret.playoff_seasons) = 2

(***************************************************************************)
(* Properties of the career handler's counts and of the rename passes.     *)
(***************************************************************************)
\* the raw rows that precede the first Career row (all rows without one)
SeasonRowsOf(raw) ==
    1..(IF RawCareer(raw) = {} THEN Len(raw.rows) ELSE Min(RawCareer(raw)) - 1)

\* C21: total_seasons is the number of distinct season labels among the rows
\* that precede the Career row, a season listed in several rows counting once
C21_TotalSeasonsIsSeasonCount ==
    (/\ IsHandler("get_player_career_stats")
     /\ call.up_regular.kind = "table"
     /\ \A i \in SeasonRowsOf(call.up_regular.raw) :
           call.up_regular.raw.rows[i][1] \in SeasonLabels
     /\ "total_seasons" \in DOMAIN call.out.ret) =>
        call.out.ret.total_seasons =
            Cardinality({call.up_regular.raw.rows[i][1] :
                            i \in SeasonRowsOf(call.up_regular.raw)})

\* C22: the fixed column rename applied to its own output changes no
\* column label, for every header
C22_RenameIdempotent ==
    (pc = "renamed" /\ call.op = "rename") => call.twice = call.once

\* a header with every kind of key is renamed, and renaming the result again
\* leaves it as it is
C22_Witness ==
    /\ pc = "renamed"
    /\ call.op = "rename"
    /\ call.cols = <<"Tm", "FG.1", "eFG">>
    /\ call.once = <<"TEAM", "FG%", "eFG%">>
    /\ call.twice = call.once

\* the label a column labelled l has after the missing-value rename probed
\* `cell` in it
ProbedLabel(l, cell) == IF cell = NaN THEN Upper(l) \o "%" ELSE l

\* the positions of the raw columns the category keeps
KeptCols(raw, stat_type) ==
    {j \in DOMAIN raw.cols :
        ~(Lower(stat_type) = "advanced" /\ raw.cols[j] \in {"G", "MP"})}

\* C23: in a returned table a column carries its upper-cased label plus "%"
\* exactly when its value in the first retained row (after the Career split)
\* is missing; every other column carries the label of the fixed renames,
\* whatever later rows hold, and when no row is retained every column does
C23_ProbeFirstRetainedRow ==
    (TableCall /\ call.out.exc = "none") =>
        LET raw == call.up.raw
            r == FirstRetained(raw, call.career)
            labels == [j \in DOMAIN raw.cols |->
                          IF r = 0 THEN ExpectedLabel(raw.cols[j])
                          ELSE ProbedLabel(ExpectedLabel(raw.cols[j]), raw.rows[r][j])]
        IN call.out.df.cols = PickFrom(labels, KeptCols(raw, call.stat_type), 1)

\* the probed row is the one two rows after the Career row, the rows before
\* it have no missing value, and the repeated label was renamed first
C23_Witness ==
    /\ TableCall
    /\ call.career
    /\ call.stat_type = "PER_GAME"
    /\ call.up.raw.cols = LayoutLegacy
    /\ RawCareer(call.up.raw) = {1}
    /\ Len(call.up.raw.rows) = 3
    /\ NoMissing(call.up.raw.rows[1])
    /\ NoMissing(call.up.raw.rows[2])
    /\ call.out.exc = "none"
    /\ call.out.df.cols = <<"SEASON", "FG", "FG%%", "FT", "FT%">>
    /\ call.out.df.index = <<2>>

(***************************************************************************)
(* Properties of the fetch selection and of the returned rows.             *)
(***************************************************************************)
\* a call for the category with the playoffs flag p performs a fetch, and
\* the player page carries the table it asks for
Delivered(stat_type, p) ==
    /\ FetchPath(Lower(stat_type), p) # "none"
    /\ TableId(Lower(stat_type), p) \in PageTableIds

\* C24: two calls that differ only in playoffs and whose fetches deliver
\* the same raw table return equal tables: rows, column labels, row numbers
C24_PlayoffsFlagDoesNotInterfere ==
    (/\ IsDirect
     /\ call.up.kind = "table"
     /\ Delivered(call.stat_type, TRUE)
     /\ Delivered(call.stat_type, FALSE)) =>
        call.out = get_stats_fixed(call.up, call.stat_type, ~call.playoffs, call.career)

\* a playoff call on the rendered-page path and the regular call on the
\* HTTP path, on a table whose Career row is split off
C24_Witness ==
    /\ IsDirect
    /\ call.up.kind = "table"
    /\ call.playoffs
    /\ ~call.career
    /\ call.stat_type = "TOTALS"
    /\ call.fetched = <<[path |-> "selenium", table_id |-> "totals_stats_post"]>>
    /\ Fetches(call.up, call.stat_type, FALSE) =
          <<[path |-> "http", table_id |-> "totals_stats"]>>
    /\ RawCareer(call.up.raw) = {2}
    /\ call.out.exc = "none"
    /\ Len(call.out.df.rows) = 1
    /\ call.out = get_stats_fixed(call.up, call.stat_type, FALSE, call.career)

\* the call performed a fetch on `path`
FetchedOn(path) == \E i \in DOMAIN call.fetched : call.fetched[i].path = path

\* C25: a call performs at most one fetch; for a player the lookup resolved
\* it is the HTTP fetch exactly when the lower-cased category is per_game,
\* totals or advanced and playoffs is false, the rendered-page fetch exactly
\* when the category is per_minute or per_poss or playoffs is true, and for
\* any other category with playoffs false there is no fetch and the result
\* is an empty table, not an error
C25_FetchPathFixedByInputs ==
    IsDirect =>
        LET category == Lower(call.stat_type)
            plain == category \in {"per_game", "totals", "advanced"} /\ ~call.playoffs
            rendered == category \in {"per_minute", "per_poss"} \/ call.playoffs
        IN /\ Len(call.fetched) <= 1
           /\ call.up.kind # "not_found" =>
                 /\ FetchedOn("http") <=> plain
                 /\ FetchedOn("selenium") <=> rendered
                 /\ (~plain /\ ~rendered) =>
                       (call.fetched = <<>> /\ call.out = Ok(EmptyDataFrame))

\* a category the code does not know, with playoffs false, on the page of a
\* player that has tables: no fetch, an empty table
C25_Witness ==
    /\ IsDirect
    /\ call.up.kind = "table"
    /\ Len(call.up.raw.rows) > 0
    /\ call.stat_type = "PER_POSSESSION"
    /\ ~call.playoffs
    /\ call.fetched = <<>>
    /\ call.out = Ok(EmptyDataFrame)

\* C26: with career=False the returned rows are numbered 0..n-1 whatever
\* rows were removed; with career=True and the Career row at index k they
\* keep their original positions k+2, k+3, ... as row numbers
C26_RowNumbering ==
    (TableCall /\ call.out.exc = "none") =>
        LET n == Len(call.out.df.rows)
        IN /\ Len(call.out.df.index) = n
           /\ ~call.career => call.out.df.index = [i \in 1..n |-> i - 1]
           /\ (call.career /\ RawCareer(call.up.raw) # {}) =>
                 LET k == Min(RawCareer(call.up.raw)) - 1
                 IN call.out.df.index = [i \in 1..n |-> k + 2 + (i - 1)]

\* the Career row is the first row of three: the one row returned with
\* career=True carries the row number 2
C26_Witness ==
    /\ TableCall
    /\ call.career
    /\ RawCareer(call.up.raw) = {1}
    /\ Len(call.up.raw.rows) = 3
    /\ call.out.exc = "none"
    /\ Len(call.out.df.rows) = 1
    /\ call.out.df.index = <<2>>
    /\ call.out.df.rows[1] = KeptRow(call.up.raw, 3, call.stat_type)

(***************************************************************************)
(* Properties of the best season, of the game log and of the Career rows.  *)
(***************************************************************************)
\* the rows of a returned table that are no Career row and hold a numeric PTS
NumericPts(t) ==
    IF Has(t.cols, "PTS")
    THEN {i \in DOMAIN t.rows :
            SeasonOf(t, i) # "Career" /\ IsNum(t.rows[i][Pos(t.cols, "PTS")])}
    ELSE {}

PtsOf(t, i) == NumVal(t.rows[i][Pos(t.cols, "PTS")])

\* both tables of get_player_career_stats were read without a raise
CareerTablesRead ==
    /\ Primary.exc = "none"
    /\ ~IsEmpty(Primary.df)
    /\ Has(Primary.df.cols, "SEASON")
    /\ LET playoff == Brs(call.up_playoff, call.args.stat_type, TRUE)
       IN playoff.exc = "none" /\ (IsEmpty(playoff.df) \/ Has(playoff.df.cols, "SEASON"))

HasPlayoffRow(label) ==
    /\ HasRow(Brs(call.up_regular, "PER_GAME", FALSE), label)
    /\ HasRow(Brs(call.up_playoff, "PER_GAME", TRUE), label)

\* C28: get_player_game_log with playoffs=True, for a player with a playoff
\* row in the season, returns type "playoffs" and a playoff_summary built
\* from that row
C28_GameLogPlayoffSummary ==
    (/\ IsHandler("get_player_game_log")
     /\ call.args.tool_binding = "function"
     /\ call.args.playoffs
     /\ HasPlayoffRow(SeasonStr(call.args.season))) =>
        LET row == FirstRow(Brs(call.up_playoff, "PER_GAME", TRUE),
                            SeasonStr(call.args.season))
        IN /\ "type" \in DOMAIN call.out.ret
           /\ call.out.ret.type = "playoffs"
           /\ "playoff_summary" \in DOMAIN call.out.ret
           /\ call.out.ret.playoff_summary =
                 [games_played |-> Get(row, "G"),
                  average_points |-> Get(row, "PTS"),
                  average_rebounds |-> Get(row, "TRB"),
                  average_assists |-> Get(row, "AST")]

\* the handler's selection df[df['SEASON'] == 'Career'] on its first table
CareerSelection == SeasonEq(Primary.df, "Career")

C30_CellsAndOrderKept ==
    (TableCall /\ call.out.exc = "none") =>
        LET raw == call.up.raw
            r == FirstRetained(raw, call.career)
            n == Len(call.out.df.rows)
        IN /\ Len(call.out.df.cols) = Cardinality(KeptCols(raw, call.stat_type))
           /\ n > 0 => r # 0
           /\ n > 0 => call.out.df.rows = KeptRows(raw, r, r + n - 1, call.stat_type)

\* an ADVANCED table with a missing value in its second row: both rows come
\* back without the G and MP cells, the missing value still missing
C30_Witness ==
    /\ TableCall
    /\ call.stat_type = "ADVANCED"
    /\ call.up.raw.cols = LayoutGames
    /\ RawCareer(call.up.raw) = {3}
    /\ NoMissing(call.up.raw.rows[1])
    /\ call.up.raw.rows[2][4] = NaN
    /\ ~call.career
    /\ call.out.exc = "none"
    /\ call.out.df.cols = <<"SEASON", "PTS">>
    /\ call.out.df.rows =
          <<<<call.up.raw.rows[1][1], "10">>, <<call.up.raw.rows[2][1], NaN>>>>

====
